---------------------------- MODULE Spec2Model ----------------------------
(***************************************************************************)
(* A model of the rss_digest pipeline: run_digest_process and the          *)
(* operations it drives (services/digest_service.py), the concurrent       *)
(* Stage-1 summarizer and the Stage-2 aggregator (utils/ai_utils.py) and   *)
(* the delivery loop of TelegramSender (utils/telegram_utils.py).          *)
(*                                                                         *)
(* Texts are sequences of tokens.  A token is a string standing for a      *)
(* word, a whitespace character or one of the fixed phrases the code       *)
(* looks for; str.strip() and the substring tests are computed on the      *)
(* token sequence.  Item ids are sequences of decimal digits (str(eid)).   *)
(***************************************************************************)
EXTENDS Integers, Sequences, FiniteSets, TLC

(***************************************************************************)
(* Bounds of the model.                                                    *)
(***************************************************************************)
MaxItems == 2
MaxRuns == 2
MaxTicks == 1
MaxChunks == 2

(***************************************************************************)
(* Program constants.                                                      *)
(***************************************************************************)
DIGEST_HISTORY_LIMIT == 10
STAGE1_MAX_WORKERS == 2
STAGE1_MAX_ATTEMPTS == 2
MAX_GENERATE_ATTEMPTS == 2
PRUNE_HOURS == 48
SECONDS_PER_HOUR == 3600
TS_DIGITS == 10

(***************************************************************************)
(* Texts.                                                                  *)
(***************************************************************************)
SP == " "
NL == "\n"
IND_EN == "Failed to generate digest"
IND_ZH == "wu fa sheng cheng zhai yao"
TITLE == "# RSS digest - <date>"

IsSpace(tok) == tok \in {SP, NL}

RECURSIVE LStrip(_)
LStrip(s) ==
    IF s = <<>> THEN <<>>
    ELSE IF IsSpace(Head(s)) THEN LStrip(Tail(s))
    ELSE s

RECURSIVE RStrip(_)
RStrip(s) ==
    IF s = <<>> THEN <<>>
    ELSE IF IsSpace(s[Len(s)]) THEN RStrip(SubSeq(s, 1, Len(s) - 1))
    ELSE s

Strip(s) == RStrip(LStrip(s))

Truthy(s) == s /= <<>>

Contains(s, tok) == \E k \in 1..Len(s) : s[k] = tok

HasFailureIndicator(s) == \E ind \in {IND_EN, IND_ZH} : Contains(s, ind)


(***************************************************************************)
(* Items.  The id of an item is the digit string of an integer whose       *)
(* leading 10 digits are a Unix timestamp in seconds.  The clock starts at *)
(* T0; the catalogue holds an item inserted at T0, one a second earlier    *)
(* and one inserted more than 48 hours before T0.                          *)
(***************************************************************************)
T0 == 1700000000

RECURSIVE Digits(_)
Digits(n) == IF n < 10 THEN <<n>> ELSE Append(Digits(n \div 10), n % 10)

RECURSIVE IntOf(_)
IntOf(ds) == IF ds = <<>> THEN 0 ELSE 10 * IntOf(SubSeq(ds, 1, Len(ds) - 1)) + ds[Len(ds)]

MkItem(ts, tail, title, feed, link) ==
    [id |-> Digits(ts) \o tail, title |-> title, feed_name |-> feed, link |-> link]

Catalogue ==
    { MkItem(T0, <<0, 0, 0, 0, 0, 1>>, "tA", "fA", "lA"),
      MkItem(T0 - 1, <<0, 0, 0, 0, 0, 2>>, "tB", "fB", "lB"),
      MkItem(T0 - PRUNE_HOURS * SECONDS_PER_HOUR - 1, <<0, 0, 0, 0, 0, 3>>, "tC", "fC", "lC") }

AllIds == { it.id : it \in Catalogue }

\* int(str(eid)[:10])
LeadingTimestamp(eid) ==
    IntOf(SubSeq(eid, 1, IF Len(eid) < TS_DIGITS THEN Len(eid) ELSE TS_DIGITS))

IsInjective(s) == \A a, b \in DOMAIN s : s[a] = s[b] => a = b

SeqsUpTo(S, n) == UNION { [1..k -> S] : k \in 0..n }

(***************************************************************************)
(* get_recent_entries: the items of the source that the tracker file does  *)
(* not list, in the source's order, which is taken to be that of the       *)
(* insertion times.  An item exists in the source only once its insertion  *)
(* time has come.                                                          *)
(***************************************************************************)
InSourceOrder(es) ==
    \A a, b \in DOMAIN es : a < b => LeadingTimestamp(es[a].id) < LeadingTimestamp(es[b].id)

FetchResults(processedIds, clock) ==
    { es \in SeqsUpTo(Catalogue, MaxItems) :
        /\ IsInjective(es)
        /\ InSourceOrder(es)
        /\ \A k \in DOMAIN es :
              /\ es[k].id \notin processedIds
              /\ LeadingTimestamp(es[k].id) <= clock }

(***************************************************************************)
(* _update_processed_ids.  io is what the file system does: "ok"; an error *)
(* raised while reading ("read_error") or by open(..., 'w')                *)
(* ("write_error"), after which the file is as it was; or an error raised  *)
(* by json.dump or by the close of the file ("dump_error"), after open has *)
(* cut the file to length 0.  The function logs every one of them.         *)
(***************************************************************************)
TrackerIO == {"ok", "read_error", "write_error", "dump_error"}

\* A processed-ids file that was cut short holds no list: json.load raises on
\* it.  It is written as the set of the empty id, which no item has.
TRUNCATED_FILE == {<<>>}

\* What the file system can do on a call, given the stored file.
TrackerIOOn(stored) == IF stored = TRUNCATED_FILE THEN {"read_error"} ELSE TrackerIO

CutoffTs(clock) == clock - PRUNE_HOURS * SECONDS_PER_HOUR

\* int(str(eid)[:10]) >= cutoff_ts
KeepsId(eid, clock) == LeadingTimestamp(eid) >= CutoffTs(clock)

\* (mutant) only the ids read from the file are filtered
UpdateProcessedIdsNewUnfiltered(existing_ids, entry_ids, clock, io) ==
    LET filtered_ids == { eid \in existing_ids : KeepsId(eid, clock) }
    IN  IF io = "ok" THEN filtered_ids \cup entry_ids ELSE existing_ids

UpdateProcessedIds(existing_ids, entry_ids, clock, io) ==
    LET all_ids_set == existing_ids \cup entry_ids
        filtered_ids == { eid \in all_ids_set : KeepsId(eid, clock) }
    IN  IF io = "ok" THEN filtered_ids
        ELSE IF io = "dump_error" THEN TRUNCATED_FILE
        ELSE existing_ids

(***************************************************************************)
(* _load_digest_history and _save_digest_to_history.  A failed read is     *)
(* logged inside _load_digest_history, which then returns the empty list;  *)
(* a failed write is logged inside _save_digest_to_history: "write_error"  *)
(* is an error raised by open(..., 'w'), which leaves the file as it was,  *)
(* "dump_error" an error raised by json.dump or by the close, after open   *)
(* has cut the file to length 0.  A file cut short is read as the empty    *)
(* list, json.load raising inside _load_digest_history.                    *)
(***************************************************************************)
WriteOutcomes == {"ok", "write_error", "dump_error"}

LoadDigestHistory(stored, readOk) == IF readOk THEN stored ELSE <<>>

\* history[:n]
Truncate(s, n) == SubSeq(s, 1, IF Len(s) < n THEN Len(s) ELSE n)

SaveDigestToHistory(stored, d, readOk, write) ==
    LET loaded == LoadDigestHistory(stored, readOk)
        inserted == <<d>> \o loaded
        kept == Truncate(inserted, DIGEST_HISTORY_LIMIT)
    IN  IF write = "ok" THEN kept
        ELSE IF write = "dump_error" THEN <<>>
        ELSE stored


(***************************************************************************)
(* Stage 1: AIProcessor.summarize_articles and its worker.                 *)
(***************************************************************************)
\* The text the service generates for item i on attempt a, when it does.
Stage1Word(i, a) ==
    << <<"s1a", "s1b", "s1c">>, <<"s2a", "s2b", "s2c">>,
       <<"s3a", "s3b", "s3c">>, <<"s4a", "s4b", "s4c">> >>[i][a]

\* What one chat.completions.create call of item i, attempt a can do: raise,
\* return no content, return blank content, return text.
Stage1Responses(i, a) ==
    { [err |-> TRUE, content |-> <<>>],
      [err |-> FALSE, content |-> <<>>],
      [err |-> FALSE, content |-> <<SP, NL>>],
      [err |-> FALSE, content |-> <<SP, Stage1Word(i, a), NL>>] }

\* summary = (summary or "").strip(); an exception leaves no summary.
AttemptSummary(resp) == IF resp.err THEN <<>> ELSE Strip(resp.content)

\* client is the OpenAI client the worker built when its thread took the task:
\* the k-th client built in this call of summarize_articles, 0 before the start.
QueuedTask == [st |-> "queued", att |-> 0, summary |-> <<>>, client |-> 0]

\* (mutant) the loop allows a third attempt
WorkerAfterAttemptThree(t, resp) ==
    LET summary == AttemptSummary(resp)
    IN  IF Truthy(summary)
        THEN [st |-> "finished", att |-> t.att, summary |-> summary, client |-> t.client]
        ELSE IF t.att < STAGE1_MAX_ATTEMPTS + 1
             THEN [st |-> "running", att |-> t.att + 1, summary |-> <<>>,
                   client |-> t.client]
             ELSE [st |-> "finished", att |-> t.att, summary |-> <<>>,
                   client |-> t.client]

\* One pass of the worker's for loop, on attempt t.att, given the response.
WorkerAfterAttempt(t, resp) ==
    LET summary == AttemptSummary(resp)
    IN  IF Truthy(summary)
        THEN [st |-> "finished", att |-> t.att, summary |-> summary, client |-> t.client]
        ELSE IF t.att < STAGE1_MAX_ATTEMPTS
             THEN [st |-> "running", att |-> t.att + 1, summary |-> <<>>,
                   client |-> t.client]
             ELSE [st |-> "finished", att |-> t.att, summary |-> <<>>,
                   client |-> t.client]

\* return i, title, source, link, summary
WorkerResult(i, e, summary) ==
    [i |-> i, title |-> e.title, source |-> e.feed_name, link |-> e.link,
     summary |-> summary]

NoneBlock ==
    [start |-> 0, source |-> "", link |-> "", title |-> "", summary |-> <<>>,
     end |-> 0]

\* "--- ARTICLE {i} START ---\n{header}\n...{per_article}\n--- ARTICLE {i} END ---"
Block(r) ==
    [start |-> r.i, source |-> r.source, link |-> r.link, title |-> r.title,
     summary |-> r.summary, end |-> r.i]

\* (mutant) results.append(block): the block goes to the first free slot
StoreResultInCompletionOrder(slots, i, block) ==
    LET free == { k \in DOMAIN slots : slots[k].start = 0 }
        first == CHOOSE k \in free : \A j \in free : k <= j
    IN  [slots EXCEPT ![first] = block]

\* results[i - 1] = block
StoreResult(slots, i, block) == [slots EXCEPT ![i] = block]

\* parts = [blk for blk in results if blk is not None]; "\n\n".join(parts)
IsBlock(b) == b /= NoneBlock

MergeParts(slots) == SelectSeq(slots, IsBlock)

\* A merged text is blank only when it has no block: every block holds its
\* START and END marker lines.
MergedIsBlank(m) == m = <<>>

\* The pool: a free worker thread takes the next queued task, in submission
\* order, so at most STAGE1_MAX_WORKERS tasks run and the others wait.
Running(tasks) == { j \in DOMAIN tasks : tasks[j].st = "running" }

\* (mutant) the pool starts every submitted task at once
CanStartUnbounded(tasks, i) ==
    /\ tasks[i].st = "queued"
    /\ \A j \in 1..(i - 1) : tasks[j].st /= "queued"

CanStart(tasks, i) ==
    /\ tasks[i].st = "queued"
    /\ \A j \in 1..(i - 1) : tasks[j].st /= "queued"
    /\ Cardinality(Running(tasks)) < STAGE1_MAX_WORKERS

\* local_client = OpenAI(...): a new object at each call of worker
NewClient(tasks) == Cardinality({ j \in DOMAIN tasks : tasks[j].client /= 0 }) + 1

\* (mutant) the collecting loop ends with the first completed future
AllDoneAtFirst(tasks) == \E i \in DOMAIN tasks : tasks[i].st = "finished"

\* The as_completed loop has handed over every future and the executor's
\* with block has been left.
AllDone(tasks) == \A i \in DOMAIN tasks : tasks[i].st = "finished"

RECURSIVE Dispatch(_)
Dispatch(tasks) ==
    IF \E i \in DOMAIN tasks : CanStart(tasks, i)
    THEN LET i == CHOOSE j \in DOMAIN tasks : CanStart(tasks, j)
         IN  Dispatch([tasks EXCEPT ![i] = [st |-> "running", att |-> 1, summary |-> <<>>,
                                            client |-> NewClient(tasks)]])
    ELSE tasks

(***************************************************************************)
(* Stage 2: finalize_digest_from_article_summaries and generate_digest.    *)
(***************************************************************************)
Stage2Responses ==
    { [err |-> TRUE, content |-> <<>>],
      [err |-> FALSE, content |-> <<>>],
      [err |-> FALSE, content |-> <<NL, SP>>],
      [err |-> FALSE, content |-> <<SP, "d1", NL>>],
      [err |-> FALSE, content |-> <<"d2", IND_ZH>>] }

\* digest = (completion...content or "").strip(); "" on an exception
FinalizeDigest(resp) == IF resp.err THEN <<>> ELSE Strip(resp.content)

STAGE1_EMPTY == <<IND_EN, ": Stage1 produced no summaries.">>
STAGE2_EMPTY == <<IND_EN, ": Stage2 returned empty content.">>

\* generate_digest, from the Stage-2 text on
DigestFromStage2(ai_generated_digest) ==
    IF ~Truthy(ai_generated_digest) \/ ~Truthy(Strip(ai_generated_digest))
    THEN STAGE2_EMPTY
    ELSE <<TITLE, NL, NL>> \o ai_generated_digest

(***************************************************************************)
(* run_digest_process: the retry loop's test and the final test.           *)
(***************************************************************************)
\* if digest and digest.strip() and not any(ind in digest ...): break
LoopAccepts(d) == Truthy(d) /\ Truthy(Strip(d)) /\ ~HasFailureIndicator(d)

\* if not digest or any(ind in digest ...)
FinalRejects(d) == ~Truthy(d) \/ HasFailureIndicator(d)

\* error_message = digest or "Empty digest"
ErrorMessageOf(d) == IF Truthy(d) THEN d ELSE <<"Empty digest">>

\* (mutant) the message of the first failed attempt is kept
ErrorMessageAfterKeepFirst(previous, d) ==
    IF LoopAccepts(d) \/ previous /= <<>> THEN previous ELSE ErrorMessageOf(d)

\* error_message after an attempt that returned d: assigned when the loop
\* does not break
ErrorMessageAfter(previous, d) ==
    IF LoopAccepts(d) THEN previous ELSE ErrorMessageOf(d)

\* (mutant) the loop never retries
PcAfterGenerateNoRetry(d, att) == "final"

\* while attempt < max_attempts, after generate_digest returned d
PcAfterGenerate(d, att) ==
    IF LoopAccepts(d) THEN "final"
    ELSE IF att < MAX_GENERATE_ATTEMPTS THEN "attempt" ELSE "final"

\* (mutant) the final check lets a failed digest through to the commit
PcAfterFinalCheckCommitAlways(d, sendFlag) == "commit"

\* (mutant) a valid digest is delivered without the tracker update before it
PcAfterFinalCheckDeliverFirst(d, sendFlag) ==
    IF FinalRejects(d)
    THEN (IF sendFlag THEN "notify" ELSE "failed")
    ELSE (IF sendFlag THEN "deliver" ELSE "commit")

\* if not digest or any(...): [notice]; return digest -- else the commit
PcAfterFinalCheck(d, sendFlag) ==
    IF FinalRejects(d)
    THEN (IF sendFlag THEN "notify" ELSE "failed")
    ELSE "commit"

\* if send: response = send_digest(digest) -- else return digest
PcAfterCommit(sendFlag) == IF sendFlag THEN "deliver" ELSE "success"

\* (mutant) a refused digest leaves the run waiting, with no return
PcAfterSendDigestNoReturn(success) == IF success THEN "save" ELSE "waiting"

\* (mutant) the digest is saved whatever the response
PcAfterSendDigestAlwaysSave(success) == "save"

\* if response.get("success"): _save_digest_to_history(digest)
PcAfterSendDigest(success) == IF success THEN "save" ELSE "success"

NoticeText(error_message) == <<"Digest generation failed after 2 attempts. Error: ">> \o error_message

\* (mutant) the empty test is left out
IsEmptyBatchNever(es) == FALSE

\* if not entries
IsEmptyBatch(es) == es = <<>>

NoNewMessage == <<"No new entries found in the past <hours_back> hours (after filtering processed IDs).">>


(***************************************************************************)
(* Telegram texts (utils/telegram_utils.py).  A text handed to the sender  *)
(* is a sequence of runs [c, n]: the character c, n times.  Only an        *)
(* ordinary letter is held in a run longer than 1, so every character the  *)
(* code's patterns look for is a run of its own.                           *)
(***************************************************************************)
TELEGRAM_LIMIT == 4096

Ch(c) == [c |-> c, n |-> 1]

Rep(c, n) == [c |-> c, n |-> n]

Str(cs) == [k \in 1..Len(cs) |-> Ch(cs[k])]

\* len(text)
RECURSIVE TextLen(_)
TextLen(s) == IF s = <<>> THEN 0 ELSE Head(s).n + TextLen(Tail(s))

\* The same characters, in maximal runs.
RECURSIVE Canon(_)
Canon(s) ==
    IF Len(s) < 2 THEN s
    ELSE LET rest == Canon(Tail(s))
         IN  IF Head(s).c = Head(rest).c
             THEN <<Rep(Head(s).c, Head(s).n + Head(rest).n)>> \o Tail(rest)
             ELSE <<Head(s)>> \o rest

\* s[k:]
RECURSIVE DropChars(_, _)
DropChars(s, k) ==
    IF k <= 0 \/ s = <<>> THEN s
    ELSE IF Head(s).n <= k THEN DropChars(Tail(s), k - Head(s).n)
    ELSE <<Rep(Head(s).c, Head(s).n - k)>> \o Tail(s)

\* s[:k]
RECURSIVE TakeChars(_, _)
TakeChars(s, k) ==
    IF k <= 0 \/ s = <<>> THEN <<>>
    ELSE IF Head(s).n <= k THEN <<Head(s)>> \o TakeChars(Tail(s), k - Head(s).n)
    ELSE <<Rep(Head(s).c, k)>>

\* s[lo:hi]
Slice(s, lo, hi) == TakeChars(DropChars(s, lo), hi - lo)

\* str.strip() of a text
WhiteChars == {" ", "\n", "\t"}

RECURSIVE TextLStrip(_)
TextLStrip(s) ==
    IF s = <<>> THEN <<>>
    ELSE IF Head(s).c \in WhiteChars THEN TextLStrip(Tail(s))
    ELSE s

RECURSIVE TextRStrip(_)
TextRStrip(s) ==
    IF s = <<>> THEN <<>>
    ELSE IF s[Len(s)].c \in WhiteChars THEN TextRStrip(SubSeq(s, 1, Len(s) - 1))
    ELSE s

TextStrip(s) == TextRStrip(TextLStrip(s))

\* s.startswith(prefix), prefix a string of single characters
StartsWith(s, prefix) ==
    /\ Len(s) >= Len(prefix)
    /\ \A k \in 1..Len(prefix) : s[k] = Ch(prefix[k])

\* text.split('\n')
RECURSIVE SplitLinesFrom(_, _, _)
SplitLinesFrom(s, line, acc) ==
    IF s = <<>> THEN Append(acc, line)
    ELSE IF Head(s).c = "\n" THEN SplitLinesFrom(Tail(s), <<>>, Append(acc, line))
    ELSE SplitLinesFrom(Tail(s), Append(line, Head(s)), acc)

SplitLines(s) == SplitLinesFrom(s, <<>>, <<>>)

\* '\n'.join(lines)
RECURSIVE JoinLines(_)
JoinLines(lines) ==
    IF lines = <<>> THEN <<>>
    ELSE IF Len(lines) = 1 THEN lines[1]
    ELSE lines[1] \o <<Ch("\n")>> \o JoinLines(Tail(lines))

(***************************************************************************)
(* _escape_markdown_v2_content.  A placeholder "\x00LINK{i}\x00" or        *)
(* "\x00BOLD{i}\x00" is one character of its own: none of its characters   *)
(* is one the patterns look for, and the input holds no NUL.               *)
(***************************************************************************)
\* escape_chars_pattern; "BACKTICK" stands for the grave accent
RESERVED ==
    {"_", "*", "[", "]", "(", ")", "~", "BACKTICK", ">", "#", "+", "-", "=", "|",
     "{", "}", ".", "!"}

LinkPlaceholder(i) == Ch("<NUL>LINK" \o ToString(i) \o "<NUL>")

BoldPlaceholder(i) == Ch("<NUL>BOLD" \o ToString(i) \o "<NUL>")

\* The least index from p on whose character is in cs, 0 when there is none.
RECURSIVE FindChar(_, _, _)
FindChar(s, p, cs) ==
    IF p > Len(s) THEN 0
    ELSE IF s[p].c \in cs THEN p
    ELSE FindChar(s, p + 1, cs)

CharAt(s, p) == IF p >= 1 /\ p <= Len(s) THEN s[p].c ELSE ""

\* [^()]*(?:\([^()]*\)[^()]*)*\) matched from p: the index of the closing
\* parenthesis that ends the link, 0 when the pattern does not match.
RECURSIVE UrlEnd(_, _)
UrlEnd(s, p) ==
    LET q == FindChar(s, p, {"(", ")"})
    IN  IF q = 0 THEN 0
        ELSE IF s[q].c = ")" THEN q
        ELSE LET r == FindChar(s, q + 1, {"(", ")"})
             IN  IF r = 0 \/ s[r].c = "(" THEN 0
                 ELSE UrlEnd(s, r + 1)

NoMatch == [ok |-> FALSE, first |-> <<>>, second |-> <<>>, last |-> 0]

\* \[([^\]]+)\]\((url)\) matched at index i
LinkAt(s, i) ==
    IF CharAt(s, i) /= "[" THEN NoMatch
    ELSE LET j == FindChar(s, i + 1, {"]"})
         IN  IF j = 0 \/ j = i + 1 \/ CharAt(s, j + 1) /= "(" THEN NoMatch
             ELSE LET e == UrlEnd(s, j + 2)
                  IN  IF e = 0 THEN NoMatch
                      ELSE [ok |-> TRUE, first |-> SubSeq(s, i + 1, j - 1),
                            second |-> SubSeq(s, j + 2, e - 1), last |-> e]

\* \*\*([^*]+)\*\* matched at index i
BoldAt(s, i) ==
    IF CharAt(s, i) /= "*" \/ CharAt(s, i + 1) /= "*" THEN NoMatch
    ELSE LET j == FindChar(s, i + 2, {"*"})
         IN  IF j = 0 \/ j = i + 2 \/ CharAt(s, j + 1) /= "*" THEN NoMatch
             ELSE [ok |-> TRUE, first |-> SubSeq(s, i + 2, j - 1),
                   second |-> <<>>, last |-> j + 1]

\* _convert_markdown_links_to_telegram: re.sub from index i on
RECURSIVE ConvertLinksFrom(_, _, _, _)
ConvertLinksFrom(s, i, out, links) ==
    IF i > Len(s) THEN [text |-> out, found |-> links]
    ELSE LET m == LinkAt(s, i)
         IN  IF m.ok
             THEN ConvertLinksFrom(s, m.last + 1,
                      Append(out, LinkPlaceholder(Len(links))),
                      Append(links, [display_text |-> m.first, url |-> m.second]))
             ELSE ConvertLinksFrom(s, i + 1, Append(out, s[i]), links)

ConvertMarkdownLinks(s) == ConvertLinksFrom(s, 1, <<>>, <<>>)

\* _convert_markdown_bold_to_telegram: re.sub from index i on
RECURSIVE ConvertBoldFrom(_, _, _, _)
ConvertBoldFrom(s, i, out, bold_segments) ==
    IF i > Len(s) THEN [text |-> out, found |-> bold_segments]
    ELSE LET m == BoldAt(s, i)
         IN  IF m.ok
             THEN ConvertBoldFrom(s, m.last + 1,
                      Append(out, BoldPlaceholder(Len(bold_segments))),
                      Append(bold_segments, m.first))
             ELSE ConvertBoldFrom(s, i + 1, Append(out, s[i]), bold_segments)

ConvertMarkdownBold(s) == ConvertBoldFrom(s, 1, <<>>, <<>>)

\* (mutant) the backslash is escaped as well
RECURSIVE EscapeCharsAndBackslash(_)
EscapeCharsAndBackslash(s) ==
    IF s = <<>> THEN <<>>
    ELSE (IF Head(s).c \in RESERVED \cup {"\\"} THEN <<Ch("\\"), Head(s)>>
          ELSE <<Head(s)>>)
         \o EscapeCharsAndBackslash(Tail(s))

\* re.sub(escape_chars_pattern, r'\\\1', text)
RECURSIVE EscapeChars(_)
EscapeChars(s) ==
    IF s = <<>> THEN <<>>
    ELSE (IF Head(s).c \in RESERVED THEN <<Ch("\\"), Head(s)>> ELSE <<Head(s)>>)
         \o EscapeChars(Tail(s))

\* url.replace('\\', '\\\\').replace(')', '\\)')
RECURSIVE EscapeUrl(_)
EscapeUrl(s) ==
    IF s = <<>> THEN <<>>
    ELSE (IF Head(s).c \in {"\\", ")"} THEN <<Ch("\\"), Head(s)>> ELSE <<Head(s)>>)
         \o EscapeUrl(Tail(s))

\* text.replace(old, new), old a single character
RECURSIVE ReplaceChar(_, _, _)
ReplaceChar(s, old, new) ==
    IF s = <<>> THEN <<>>
    ELSE (IF Head(s) = old THEN new ELSE <<Head(s)>>) \o ReplaceChar(Tail(s), old, new)

\* for i, content in enumerate(bold_segments): ...replace(...)
RECURSIVE RestoreBold(_, _, _)
RestoreBold(text, bold_segments, i) ==
    IF i >= Len(bold_segments) THEN text
    ELSE RestoreBold(
             ReplaceChar(text, BoldPlaceholder(i),
                 <<Ch("*")>> \o EscapeChars(bold_segments[i + 1]) \o <<Ch("*")>>),
             bold_segments, i + 1)

\* for i, (display_text, url) in enumerate(links): ...replace(...)
RECURSIVE RestoreLinks(_, _, _)
RestoreLinks(text, links, i) ==
    IF i >= Len(links) THEN text
    ELSE RestoreLinks(
             ReplaceChar(text, LinkPlaceholder(i),
                 <<Ch("[")>> \o EscapeChars(links[i + 1].display_text) \o <<Ch("]"), Ch("(")>>
                 \o EscapeUrl(links[i + 1].url) \o <<Ch(")")>>),
             links, i + 1)

\* (mutant) the links are restored before the bold segments
EscapeMarkdownV2ContentLinksFirst(text) ==
    LET l == ConvertMarkdownLinks(text)
        b == ConvertMarkdownBold(l.text)
        escaped_text == EscapeChars(b.text)
    IN  RestoreBold(RestoreLinks(escaped_text, l.found, 0), b.found, 0)

EscapeMarkdownV2Content(text) ==
    LET l == ConvertMarkdownLinks(text)
        b == ConvertMarkdownBold(l.text)
        escaped_text == EscapeChars(b.text)
    IN  RestoreLinks(RestoreBold(escaped_text, b.found, 0), l.found, 0)

(***************************************************************************)
(* _process_markdown_structure_and_escape.                                 *)
(***************************************************************************)
\* (mutant) the tests are made on the line as it is, not on line.strip()
ProcessLineUnstripped(line) ==
    IF StartsWith(line, <<"#", " ">>)
    THEN <<Ch("*")>> \o EscapeMarkdownV2Content(DropChars(line, 2)) \o <<Ch("*")>>
    ELSE IF StartsWith(line, <<"#", "#", " ">>)
    THEN <<Ch("*")>> \o EscapeMarkdownV2Content(DropChars(line, 3)) \o <<Ch("*")>>
    ELSE IF StartsWith(line, <<"-", " ">>)
    THEN <<Ch("\\"), Ch("-"), Ch(" ")>> \o EscapeMarkdownV2Content(DropChars(line, 2))
    ELSE IF TextStrip(line) /= <<>>
    THEN EscapeMarkdownV2Content(line)
    ELSE <<>>

ProcessLine(line) ==
    LET stripped_line == TextStrip(line)
    IN  IF StartsWith(stripped_line, <<"#", " ">>)
        THEN <<Ch("*")>> \o EscapeMarkdownV2Content(DropChars(stripped_line, 2)) \o <<Ch("*")>>
        ELSE IF StartsWith(stripped_line, <<"#", "#", " ">>)
        THEN <<Ch("*")>> \o EscapeMarkdownV2Content(DropChars(stripped_line, 3)) \o <<Ch("*")>>
        ELSE IF StartsWith(stripped_line, <<"-", " ">>)
        THEN <<Ch("\\"), Ch("-"), Ch(" ")>> \o EscapeMarkdownV2Content(DropChars(stripped_line, 2))
        ELSE IF stripped_line /= <<>>
        THEN EscapeMarkdownV2Content(stripped_line)
        ELSE <<>>

ProcessMarkdownStructureAndEscape(text) ==
    LET lines == SplitLines(TextStrip(text))
    IN  JoinLines([k \in 1..Len(lines) |-> ProcessLine(lines[k])])

(***************************************************************************)
(* TelegramSender._send_long_message: the chunk list.                      *)
(***************************************************************************)
\* re.split(r'(\n\n|\n)', processed_text)
RECURSIVE SplitBreaksFrom(_, _, _)
SplitBreaksFrom(s, part, acc) ==
    IF s = <<>> THEN Append(acc, part)
    ELSE IF Head(s).c = "\n"
    THEN IF Len(s) >= 2 /\ s[2].c = "\n"
         THEN SplitBreaksFrom(SubSeq(s, 3, Len(s)), <<>>,
                  acc \o << part, <<Ch("\n"), Ch("\n")>> >>)
         ELSE SplitBreaksFrom(Tail(s), <<>>, acc \o << part, <<Ch("\n")>> >>)
    ELSE SplitBreaksFrom(Tail(s), Append(part, Head(s)), acc)

\* (mutant) re.split(r'\n\n|\n', ...): the delimiters are not kept
SplitBreaksNoCapture(s) ==
    LET parts == SplitBreaksFrom(s, <<>>, <<>>)
    IN  [k \in 1..((Len(parts) + 1) \div 2) |-> parts[2 * k - 1]]

SplitBreaks(s) == SplitBreaksFrom(s, <<>>, <<>>)

\* for i in range(0, len(part), 4096): chunks.append(part[i:i+4096])
ForceSplit(part) ==
    LET count == (TextLen(part) + TELEGRAM_LIMIT - 1) \div TELEGRAM_LIMIT
    IN  [k \in 1..count |->
            Slice(part, (k - 1) * TELEGRAM_LIMIT, k * TELEGRAM_LIMIT)]

\* if temp_chunk: chunks.append(temp_chunk)
Flush(chunks, temp_chunk) ==
    IF temp_chunk /= <<>> THEN Append(chunks, temp_chunk) ELSE chunks

\* for part in potential_splits: ...
RECURSIVE BuildChunks(_, _, _)
BuildChunks(parts, temp_chunk, chunks) ==
    IF parts = <<>> THEN Flush(chunks, temp_chunk)
    ELSE LET part == Head(parts)
         IN  IF TextLen(temp_chunk) + TextLen(part) <= TELEGRAM_LIMIT
             THEN BuildChunks(Tail(parts), temp_chunk \o part, chunks)
             ELSE IF TextLen(part) > TELEGRAM_LIMIT
             THEN BuildChunks(Tail(parts), <<>>,
                      Flush(chunks, temp_chunk) \o ForceSplit(part))
             ELSE BuildChunks(Tail(parts), part, Flush(chunks, temp_chunk))

ChunksOf(processed_text) == BuildChunks(SplitBreaks(processed_text), <<>>, <<>>)

\* (mutant) only the chunk without a character is skipped
IsBlankChunkEmptyOnly(chunk) == chunk = <<>>

\* not chunk.strip()
IsBlankChunk(chunk) == TextStrip(chunk) = <<>>

(***************************************************************************)
(* TelegramSender.send_message: the text it hands to the transport.        *)
(***************************************************************************)
ProcessedText(text, parse_mode, process_markdown) ==
    IF parse_mode = "MarkdownV2"
    THEN (IF process_markdown THEN ProcessMarkdownStructureAndEscape(text)
          ELSE EscapeMarkdownV2Content(text))
    ELSE text

\* (mutant) a text of exactly the limit is split
NeedsSplitAtLimit(processed_text) == TextLen(processed_text) >= TELEGRAM_LIMIT

\* if len(processed_text) > 4096
NeedsSplit(processed_text) == TextLen(processed_text) > TELEGRAM_LIMIT

\* A response of _send_single_message for chunk k (0: the single message), and
\* the response of a loop that sent nothing.
Response(ok, k) == [success |-> ok, chunk |-> k]

NoContentResponse == [success |-> FALSE, chunk |-> -1]

NoResponse == [success |-> FALSE, chunk |-> -2]

\* (mutant) a loop that sent nothing reports success
ReturnOfLoopNothingSentOk(last_response) ==
    IF last_response = NoResponse THEN [success |-> TRUE, chunk |-> -1]
    ELSE last_response

\* return last_response or {"success": False, "error": "No content chunks were sent"}
ReturnOfLoop(last_response) ==
    IF last_response = NoResponse THEN NoContentResponse ELSE last_response


(***************************************************************************)
(* State.                                                                  *)
(***************************************************************************)
VARIABLES
    now,            \* the clock, in whole seconds
    processed,      \* the ids in the processed-ids file
    history,        \* the list in the digest-history file, newest first
    runs,           \* invocations of run_digest_process so far
    pc,             \* where the current invocation is
    send,           \* the send argument
    entries,        \* the fetched items
    attempt,        \* the retry loop's counter
    task,           \* Stage 1: each item's future
    results,        \* Stage 1: the slot array
    calls,          \* Stage 1: per item, the summary each service call gave
    completed,      \* Stage 1: the items in the order their futures completed
    merged,         \* Stage 1's merged text, a sequence of blocks
    stage2req,      \* the Stage-2 requests issued by this generate attempt
    digest,         \* the local digest
    error_message,  \* the local error_message
    digests,        \* what each generate_digest call of this invocation returned
    updates,        \* the _update_processed_ids calls of this invocation
    saves,          \* the _save_digest_to_history calls of this invocation
    outText,        \* the text send_message is sending
    outTotal,       \* the number of non-blank chunks it splits into
    sends,          \* the transport calls of this invocation
    response,       \* what send_message returned: "none", "ok", "fail"
    terminal,       \* the terminal state reached
    returned,       \* the value returned to the caller
    startProcessed, \* processed when the invocation began
    startHistory,   \* history when the invocation began
    text,           \* send_message: the text argument
    parse_mode,     \* send_message: the parse_mode argument
    process_markdown, \* send_message: the process_markdown argument
    processed_text, \* send_message: the text after processing
    chunks,         \* _send_long_message: the chunk list
    cursor,         \* _send_long_message: the position of the send loop
    last_response,  \* _send_long_message: last_response
    posts,          \* the _send_single_message calls made
    result          \* what send_message returned

vars ==
    << now, processed, history, runs, pc, send, entries, attempt, task, results,
       calls, completed, merged, stage2req, digest, error_message, digests, updates, saves,
       outText, outTotal, sends, response, terminal, returned, startProcessed,
       startHistory, text, parse_mode, process_markdown, processed_text, chunks,
       cursor, last_response, posts, result >>

persistent == << now, processed, history >>
stage1Vars == << task, results, calls, completed, merged >>
sendVars == << outText, outTotal, sends, response >>
runVars == << runs, send, entries, startProcessed, startHistory >>
logVars == << digests, updates, saves >>
senderVars ==
    << text, parse_mode, process_markdown, processed_text, chunks, cursor,
       last_response, posts, result >>

\* No send_message call is under way.
SenderAtRest ==
    /\ text = <<>>
    /\ parse_mode = "MarkdownV2"
    /\ process_markdown = TRUE
    /\ processed_text = <<>>
    /\ chunks = <<>>
    /\ cursor = 0
    /\ last_response = NoResponse
    /\ posts = <<>>
    /\ result = NoResponse

Init ==
    /\ now = T0
    /\ processed = {}
    /\ history = <<>>
    /\ runs = 0
    /\ pc = "idle"
    /\ send = FALSE
    /\ entries = <<>>
    /\ attempt = 0
    /\ task = <<>>
    /\ results = <<>>
    /\ calls = <<>>
    /\ completed = <<>>
    /\ merged = <<>>
    /\ stage2req = <<>>
    /\ digest = <<>>
    /\ error_message = <<>>
    /\ digests = <<>>
    /\ updates = <<>>
    /\ saves = <<>>
    /\ outText = <<>>
    /\ outTotal = 0
    /\ sends = <<>>
    /\ response = "none"
    /\ terminal = "NONE"
    /\ returned = <<>>
    /\ startProcessed = {}
    /\ startHistory = <<>>
    /\ SenderAtRest

Idle == pc \in {"idle", "done"}

\* The time that passes between two invocations.
Elapsed(clock) ==
    { dt \in {0, PRUNE_HOURS * SECONDS_PER_HOUR} :
        clock + dt <= T0 + MaxTicks * PRUNE_HOURS * SECONDS_PER_HOUR }

\* run_digest_process(hours_back, send) up to the retry loop.
Fetch(sendFlag, dt, es) ==
    /\ Idle
    /\ runs < MaxRuns
    /\ now' = now + dt
    /\ runs' = runs + 1
    /\ send' = sendFlag
    /\ entries' = es
    /\ startProcessed' = processed
    /\ startHistory' = history
    /\ attempt' = 0
    /\ digest' = <<>>
    /\ error_message' = <<>>
    /\ task' = <<>>
    /\ results' = <<>>
    /\ calls' = <<>>
    /\ completed' = <<>>
    /\ merged' = <<>>
    /\ stage2req' = <<>>
    /\ digests' = <<>>
    /\ updates' = <<>>
    /\ saves' = <<>>
    /\ outText' = <<>>
    /\ outTotal' = 0
    /\ sends' = <<>>
    /\ response' = "none"
    /\ IF IsEmptyBatch(es)
       THEN /\ pc' = "done"
            /\ terminal' = "NO_NEW_ITEMS"
            /\ returned' = NoNewMessage
       ELSE /\ pc' = "attempt"
            /\ terminal' = "NONE"
            /\ returned' = <<>>
    /\ UNCHANGED << processed, history, senderVars >>

\* attempt += 1; generate_digest(entries) up to the submission of the futures.
BeginAttempt ==
    /\ pc = "attempt"
    /\ attempt' = attempt + 1
    /\ task' = Dispatch([i \in 1..Len(entries) |-> QueuedTask])
    /\ results' = [i \in 1..Len(entries) |-> NoneBlock]
    /\ calls' = [i \in 1..Len(entries) |-> <<>>]
    /\ completed' = <<>>
    /\ merged' = <<>>
    /\ stage2req' = <<>>
    /\ pc' = "stage1"
    /\ UNCHANGED << senderVars, persistent, runVars, digest, error_message, logVars, sendVars,
                    terminal, returned >>

\* One service call of worker i and what the worker's loop does with its
\* outcome.  When the call ends the task, its future completes, the thread takes
\* the next queued task, and as_completed hands the future to the collecting
\* loop, which stores the block; the store touches slot i alone, so it is taken
\* in the same step.
WorkerCall(i) ==
    /\ pc = "stage1"
    /\ i \in DOMAIN task
    /\ task[i].st = "running"
    /\ \E resp \in Stage1Responses(i, task[i].att) :
          LET t == WorkerAfterAttempt(task[i], resp)
              r == WorkerResult(i, entries[i], t.summary)
          IN  /\ task' = Dispatch([task EXCEPT ![i] = t])
              /\ calls' = [calls EXCEPT ![i] = Append(@, AttemptSummary(resp))]
              /\ results' = IF t.st = "finished"
                            THEN StoreResult(results, r.i, Block(r))
                            ELSE results
              /\ completed' = IF t.st = "finished" THEN Append(completed, i)
                              ELSE completed
    /\ UNCHANGED << senderVars, persistent, runVars, pc, attempt, merged, stage2req, digest,
                    error_message, logVars, sendVars, terminal, returned >>

\* What the run does once generate_digest has returned d.
AfterGenerate(d) ==
    /\ task' = <<>>
    /\ results' = <<>>
    /\ calls' = <<>>
    /\ completed' = <<>>
    /\ merged' = <<>>
    /\ stage2req' = <<>>
    /\ digest' = d
    /\ digests' = Append(digests, d)
    /\ error_message' = ErrorMessageAfter(error_message, d)
    /\ pc' = PcAfterGenerate(d, attempt)

\* All futures completed and collected: the merged text, the Stage-1 test of generate_digest,
\* the history load and the building of the Stage-2 request.
Merge(readOk) ==
    /\ pc = "stage1"
    /\ AllDone(task)
    /\ LET m == MergeParts(results)
       IN  IF MergedIsBlank(m)
           THEN AfterGenerate(STAGE1_EMPTY)
           ELSE /\ merged' = m
                /\ stage2req' = Append(stage2req,
                       [digest_history |-> LoadDigestHistory(history, readOk),
                        merged_summaries |-> m])
                /\ pc' = "stage2"
                /\ UNCHANGED << task, results, calls, completed, digest, digests,
                                error_message >>
    /\ UNCHANGED << senderVars, persistent, runVars, attempt, updates, saves, sendVars,
                    terminal, returned >>

\* (mutant) the aggregator puts its text in the history file
Stage2CallSavingHistory(resp) ==
    /\ pc = "stage2"
    /\ resp \in Stage2Responses
    /\ AfterGenerate(DigestFromStage2(FinalizeDigest(resp)))
    /\ history' = <<FinalizeDigest(resp)>> \o history
    /\ UNCHANGED << senderVars, now, processed, runVars, attempt, updates, saves, sendVars,
                    terminal, returned >>

\* The Stage-2 service call, the rest of generate_digest and the loop's test.
Stage2Call(resp) ==
    /\ pc = "stage2"
    /\ resp \in Stage2Responses
    /\ AfterGenerate(DigestFromStage2(FinalizeDigest(resp)))
    /\ UNCHANGED << senderVars, persistent, runVars, attempt, updates, saves, sendVars,
                    terminal, returned >>


\* The run moves on to target; "failed" and "success" are the two returns of
\* the digest at the end of run_digest_process.
Goto(target) ==
    IF target = "failed"
    THEN pc' = "done" /\ terminal' = "FAILED" /\ returned' = digest
    ELSE IF target = "success"
         THEN pc' = "done" /\ terminal' = "SUCCESS" /\ returned' = digest
         ELSE pc' = target /\ UNCHANGED << terminal, returned >>

\* The final check for failure after the loop.
FinalCheck ==
    /\ pc = "final"
    /\ Goto(PcAfterFinalCheck(digest, send))
    /\ UNCHANGED << senderVars, persistent, runVars, attempt, stage1Vars, stage2req, digest,
                    error_message, logVars, sendVars >>

EntryIds(es) == { es[k].id : k \in DOMAIN es }

\* current_entry_ids = [...]; _update_processed_ids(current_entry_ids)
Commit(io) ==
    /\ pc = "commit"
    /\ io \in TrackerIOOn(processed)
    /\ processed' = UpdateProcessedIds(processed, EntryIds(entries), now, io)
    /\ updates' = Append(updates,
            [entry_ids |-> EntryIds(entries), existing_ids |-> processed,
             clock |-> now, io |-> io])
    /\ Goto(PcAfterCommit(send))
    /\ UNCHANGED << senderVars, now, history, runVars, attempt, stage1Vars, stage2req, digest,
                    error_message, digests, saves, sendVars >>

\* send_message(text) up to its first transport call: the text is escaped and,
\* when over the limit, split; n is the number of non-blank chunks to send
\* (1 when the escaped text is sent as a single message).
BeginSend(n) ==
    /\ pc \in {"deliver", "notify"}
    /\ n \in 1..MaxChunks
    /\ outText' = IF pc = "deliver" THEN digest ELSE NoticeText(error_message)
    /\ outTotal' = n
    /\ pc' = IF pc = "deliver" THEN "sending_digest" ELSE "sending_notice"
    /\ UNCHANGED << senderVars, persistent, runVars, attempt, stage1Vars, stage2req, digest,
                    error_message, logVars, sends, response, terminal, returned >>

\* The loop of send_message stops at the first failed chunk or after the last.
SendLoopDone(ok, k, total) == ~ok \/ k = total

\* One _send_single_message call: the transport accepts the chunk or not.
SendChunk(ok) ==
    /\ pc \in {"sending_digest", "sending_notice"}
    /\ LET k == Len(sends) + 1
       IN  /\ sends' = Append(sends,
                   [text |-> outText, part |-> k, of |-> outTotal, ok |-> ok])
           /\ IF SendLoopDone(ok, k, outTotal)
              THEN /\ response' = IF ok THEN "ok" ELSE "fail"
                   /\ IF pc = "sending_digest"
                      THEN Goto(PcAfterSendDigest(ok))
                      ELSE Goto("failed")
              ELSE UNCHANGED << response, pc, terminal, returned >>
    /\ UNCHANGED << senderVars, persistent, runVars, attempt, stage1Vars, stage2req, digest,
                    error_message, logVars, outText, outTotal >>

\* _save_digest_to_history(digest) and the return of the digest.
SaveHistory(readOk, write) ==
    /\ pc = "save"
    /\ history' = SaveDigestToHistory(history, digest, readOk, write)
    /\ saves' = Append(saves,
            [digest |-> digest, stored |-> history, readOk |-> readOk,
             write |-> write])
    /\ Goto("success")
    /\ UNCHANGED << senderVars, now, processed, runVars, attempt, stage1Vars, stage2req,
                    digest, error_message, digests, updates, sendVars >>

Next ==
    \/ \E sendFlag \in BOOLEAN : \E dt \in Elapsed(now) :
          \E es \in FetchResults(processed, now + dt) : Fetch(sendFlag, dt, es)
    \/ BeginAttempt
    \/ \E i \in 1..Len(task) : WorkerCall(i)
    \/ \E readOk \in BOOLEAN : Merge(readOk)
    \/ \E resp \in Stage2Responses : Stage2Call(resp)
    \/ FinalCheck
    \/ \E io \in TrackerIO : Commit(io)
    \/ \E n \in 1..MaxChunks : BeginSend(n)
    \/ \E ok \in BOOLEAN : SendChunk(ok)
    \/ \E readOk \in BOOLEAN : \E write \in WriteOutcomes : SaveHistory(readOk, write)

Spec == Init /\ [][Next]_vars

\* The steps of an invocation under way.  The code is sequential apart from
\* the Stage-1 pool, and every service call and transport call returns, so an
\* invocation that can take a step takes one.
RunStep ==
    \/ BeginAttempt
    \/ \E i \in 1..Len(task) : WorkerCall(i)
    \/ \E readOk \in BOOLEAN : Merge(readOk)
    \/ \E resp \in Stage2Responses : Stage2Call(resp)
    \/ FinalCheck
    \/ \E io \in TrackerIO : Commit(io)
    \/ \E n \in 1..MaxChunks : BeginSend(n)
    \/ \E ok \in BOOLEAN : SendChunk(ok)
    \/ \E readOk \in BOOLEAN : \E write \in WriteOutcomes : SaveHistory(readOk, write)

SpecLive == Init /\ [][Next]_vars /\ WF_vars(RunStep)

(***************************************************************************)
(* generate_digest on its own, on a batch larger than the pool: the first  *)
(* invocation has fetched a batch of up to PoolItems items and stands      *)
(* before the retry loop; the steps are those of the loop.                 *)
(***************************************************************************)
PoolItems == 3

PoolBatches ==
    { es \in SeqsUpTo(Catalogue, PoolItems) : es /= <<>> /\ IsInjective(es) }

PoolInit ==
    /\ now = T0
    /\ processed = {}
    /\ history = <<>>
    /\ runs = 1
    /\ pc = "attempt"
    /\ send \in BOOLEAN
    /\ entries \in PoolBatches
    /\ attempt = 0
    /\ task = <<>>
    /\ results = <<>>
    /\ calls = <<>>
    /\ completed = <<>>
    /\ merged = <<>>
    /\ stage2req = <<>>
    /\ digest = <<>>
    /\ error_message = <<>>
    /\ digests = <<>>
    /\ updates = <<>>
    /\ saves = <<>>
    /\ outText = <<>>
    /\ outTotal = 0
    /\ sends = <<>>
    /\ response = "none"
    /\ terminal = "NONE"
    /\ returned = <<>>
    /\ startProcessed = {}
    /\ startHistory = <<>>
    /\ SenderAtRest

PoolNext ==
    \/ BeginAttempt
    \/ \E i \in 1..Len(task) : WorkerCall(i)
    \/ \E readOk \in BOOLEAN : Merge(readOk)
    \/ \E resp \in Stage2Responses : Stage2Call(resp)

SpecPool == PoolInit /\ [][PoolNext]_vars


(***************************************************************************)
(* The history store on its own: any store of at most                      *)
(* DIGEST_HISTORY_LIMIT entries, and a sequence of                         *)
(* _save_digest_to_history calls on it.                                    *)
(***************************************************************************)
MaxSaves == 3

OldEntry(k) ==
    << <<"h1">>, <<"h2">>, <<"h3">>, <<"h4">>, <<"h5">>, <<"h6">>, <<"h7">>,
       <<"h8">>, <<"h9">>, <<"h10">> >>[k]

SavedDigests == { <<TITLE, NL, NL, "d1">>, <<TITLE, NL, NL, "d2">> }

HistInit ==
    /\ now = T0
    /\ processed = {}
    /\ history \in { [k \in 1..n |-> OldEntry(k)] : n \in 0..DIGEST_HISTORY_LIMIT }
    /\ runs = 0
    /\ pc = "history"
    /\ send = TRUE
    /\ entries = <<>>
    /\ attempt = 0
    /\ task = <<>>
    /\ results = <<>>
    /\ calls = <<>>
    /\ completed = <<>>
    /\ merged = <<>>
    /\ stage2req = <<>>
    /\ digest = <<>>
    /\ error_message = <<>>
    /\ digests = <<>>
    /\ updates = <<>>
    /\ saves = <<>>
    /\ outText = <<>>
    /\ outTotal = 0
    /\ sends = <<>>
    /\ response = "none"
    /\ terminal = "NONE"
    /\ returned = <<>>
    /\ startProcessed = {}
    /\ startHistory = history
    /\ SenderAtRest

\* _save_digest_to_history(d); saves keeps the latest call.
HistSave(d, readOk, write) ==
    /\ pc = "history"
    /\ runs < MaxSaves
    /\ runs' = runs + 1
    /\ digest' = d
    /\ history' = SaveDigestToHistory(history, d, readOk, write)
    /\ saves' = << [digest |-> d, stored |-> history, readOk |-> readOk,
                   write |-> write] >>
    /\ UNCHANGED << now, processed, pc, send, entries, attempt, stage1Vars,
                    stage2req, error_message, digests, updates, sendVars, terminal,
                    returned, startProcessed, startHistory, senderVars >>

HistNext ==
    \E d \in SavedDigests : \E readOk \in BOOLEAN : \E write \in WriteOutcomes :
        HistSave(d, readOk, write)

SpecHistory == HistInit /\ [][HistNext]_vars

(***************************************************************************)
(* TelegramSender.send_message on its own: a text, a parse mode and the    *)
(* process_markdown flag, then the calls of _send_single_message, each of  *)
(* which the transport accepts or not.                                     *)
(***************************************************************************)
MaxPieces == 3
MaxSegments == 3

RECURSIVE Flatten(_)
Flatten(ss) == IF ss = <<>> THEN <<>> ELSE Head(ss) \o Flatten(Tail(ss))

\* Pieces of texts around the limit.
LongPieces ==
    { <<Rep("a", TELEGRAM_LIMIT - 1)>>, <<Rep("a", TELEGRAM_LIMIT)>>,
      <<Rep("b", 2 * TELEGRAM_LIMIT + 1)>>, Str(<<".">>), Str(<<"\n">>),
      Str(<<"\n", "\n">>), Str(<<" ">>), <<Rep("\t", TELEGRAM_LIMIT + 1)>> }

\* Pieces of marked-up texts.
MarkupSegments ==
    { Str(<<"a">>), Str(<<".">>), Str(<<"*">>), Str(<<"[">>), Str(<<")">>),
      Str(<<"\\">>), Str(<<" ">>), Str(<<"\n">>),
      Str(<<"#", " ">>), Str(<<"-", " ">>), Str(<<"#", "#", " ">>),
      Str(<<"\n", " ", "-", " ">>),
      Str(<<"*", "*", "a", ".", "*", "*">>),
      Str(<<"[", "t", ".", "]", "(", "u", "(", "v", ")", "\\", "w", ")">>),
      Str(<<"*", "*", "[", "t", "]", "(", "u", ")", "*", "*">>),
      Str(<<"[", "*", "*", "b", "*", "*", "]", "(", "u", ")">>) }

LongTexts == { Flatten(ps) : ps \in SeqsUpTo(LongPieces, MaxPieces) }

MarkupTexts == { Flatten(ps) : ps \in SeqsUpTo(MarkupSegments, MaxSegments) }

SendInit ==
    /\ now = T0
    /\ processed = {}
    /\ history = <<>>
    /\ runs = 0
    /\ pc = "send_message"
    /\ send = TRUE
    /\ entries = <<>>
    /\ attempt = 0
    /\ task = <<>>
    /\ results = <<>>
    /\ calls = <<>>
    /\ completed = <<>>
    /\ merged = <<>>
    /\ stage2req = <<>>
    /\ digest = <<>>
    /\ error_message = <<>>
    /\ digests = <<>>
    /\ updates = <<>>
    /\ saves = <<>>
    /\ outText = <<>>
    /\ outTotal = 0
    /\ sends = <<>>
    /\ response = "none"
    /\ terminal = "NONE"
    /\ returned = <<>>
    /\ startProcessed = {}
    /\ startHistory = <<>>
    /\ \/ /\ text \in LongTexts
          /\ parse_mode \in {"MarkdownV2", ""}
          /\ process_markdown \in BOOLEAN
       \/ /\ text \in MarkupTexts
          /\ parse_mode = "MarkdownV2"
          /\ process_markdown \in BOOLEAN
    /\ processed_text = <<>>
    /\ chunks = <<>>
    /\ cursor = 0
    /\ last_response = NoResponse
    /\ posts = <<>>
    /\ result = NoResponse

orchestratorVars ==
    << now, processed, history, runs, send, entries, attempt, task, results,
       calls, completed, merged, stage2req, digest, error_message, digests,
       updates, saves, outText, outTotal, sends, response, terminal, returned,
       startProcessed, startHistory >>

\* send_message up to the choice between one message and the chunk loop.
SendMessage ==
    /\ pc = "send_message"
    /\ LET t == ProcessedText(text, parse_mode, process_markdown)
       IN  /\ processed_text' = t
           /\ IF NeedsSplit(t)
              THEN /\ chunks' = ChunksOf(t)
                   /\ cursor' = 1
                   /\ pc' = "send_long"
              ELSE /\ UNCHANGED << chunks, cursor >>
                   /\ pc' = "send_single"
    /\ UNCHANGED << orchestratorVars, text, parse_mode, process_markdown,
                    last_response, posts, result >>

\* return self._send_single_message(processed_text, parse_mode)
SendSingleMessage(ok) ==
    /\ pc = "send_single"
    /\ posts' = Append(posts, [text |-> processed_text, chunk |-> 0, ok |-> ok])
    /\ result' = Response(ok, 0)
    /\ pc' = "sent"
    /\ UNCHANGED << orchestratorVars, text, parse_mode, process_markdown,
                    processed_text, chunks, cursor, last_response >>

\* if not chunk.strip(): continue
SkipBlankChunk ==
    /\ pc = "send_long"
    /\ cursor <= Len(chunks)
    /\ IsBlankChunk(chunks[cursor])
    /\ cursor' = cursor + 1
    /\ UNCHANGED << orchestratorVars, pc, text, parse_mode, process_markdown,
                    processed_text, chunks, last_response, posts, result >>

\* (mutant) the loop goes on after a failed chunk
SendNextChunkIgnoringFailure(ok) ==
    /\ pc = "send_long"
    /\ cursor <= Len(chunks)
    /\ ~IsBlankChunk(chunks[cursor])
    /\ posts' = Append(posts, [text |-> chunks[cursor], chunk |-> cursor, ok |-> ok])
    /\ last_response' = Response(ok, cursor)
    /\ cursor' = cursor + 1
    /\ UNCHANGED << orchestratorVars, pc, result, text, parse_mode, process_markdown,
                    processed_text, chunks >>

\* response = self._send_single_message(chunk, parse_mode) and the test of it
SendNextChunk(ok) ==
    /\ pc = "send_long"
    /\ cursor <= Len(chunks)
    /\ ~IsBlankChunk(chunks[cursor])
    /\ posts' = Append(posts, [text |-> chunks[cursor], chunk |-> cursor, ok |-> ok])
    /\ last_response' = Response(ok, cursor)
    /\ IF ok
       THEN /\ cursor' = cursor + 1
            /\ UNCHANGED << pc, result >>
       ELSE /\ result' = Response(ok, cursor)
            /\ pc' = "sent"
            /\ UNCHANGED cursor
    /\ UNCHANGED << orchestratorVars, text, parse_mode, process_markdown,
                    processed_text, chunks >>

\* return last_response or {"success": False, ...}
EndOfChunks ==
    /\ pc = "send_long"
    /\ cursor > Len(chunks)
    /\ result' = ReturnOfLoop(last_response)
    /\ pc' = "sent"
    /\ UNCHANGED << orchestratorVars, text, parse_mode, process_markdown,
                    processed_text, chunks, cursor, last_response, posts >>

SendNext ==
    \/ SendMessage
    \/ \E ok \in BOOLEAN : SendSingleMessage(ok)
    \/ SkipBlankChunk
    \/ \E ok \in BOOLEAN : SendNextChunk(ok)
    \/ EndOfChunks

SpecSend == SendInit /\ [][SendNext]_vars

(***************************************************************************)
(* The claims.                                                             *)
(***************************************************************************)
\* The summaries the service can have generated for the item at position k.
SummariesOf(k) == { <<Stage1Word(k, a)>> : a \in 1..STAGE1_MAX_ATTEMPTS }

\* C1: whatever the order in which the Stage-1 tasks complete, the merged text
\* has exactly one block per input item and its k-th block is the block of the
\* k-th input item: index, source, link, title, and the summary item k's task
\* yielded.
C1_MergedFollowsInputOrder ==
    pc = "stage2" =>
        /\ Len(merged) = Len(entries)
        /\ \A k \in 1..Len(entries) :
              /\ merged[k].start = k
              /\ merged[k].end = k
              /\ merged[k].source = entries[k].feed_name
              /\ merged[k].link = entries[k].link
              /\ merged[k].title = entries[k].title
              /\ merged[k].summary = task[k].summary
              /\ merged[k].summary \in SummariesOf(k) \cup {<<>>}

\* C1 witness: two items whose tasks completed in the reverse of input order,
\* both with a summary, and the merged text is built.
C1_Witness ==
    /\ pc = "stage2"
    /\ Len(entries) = 2
    /\ completed = <<2, 1>>
    /\ Truthy(merged[1].summary)
    /\ Truthy(merged[2].summary)

\* C2: a task makes at most 2 service calls; when the first gives a summary
\* there is no second; when the first fails the task yields what the second
\* gave, the empty summary if that failed too; and each stored block is its own
\* task's result whatever the other tasks did.
C2_RetryBound ==
    \A i \in DOMAIN task :
        /\ Len(calls[i]) <= 2
        /\ task[i].st = "finished" =>
              /\ Len(calls[i]) >= 1
              /\ Truthy(calls[i][1]) =>
                    Len(calls[i]) = 1 /\ task[i].summary = calls[i][1]
              /\ ~Truthy(calls[i][1]) =>
                    Len(calls[i]) = 2 /\ task[i].summary = calls[i][2]
              /\ results[i].start = i
              /\ results[i].summary = task[i].summary
        /\ task[i].st /= "finished" => results[i] = NoneBlock

\* C2 witness: the first task failed twice and yielded the empty summary, the
\* second failed once and yielded its second attempt's summary; both blocks are
\* in the merged text.
C2_Witness ==
    /\ pc = "stage2"
    /\ Len(entries) = 2
    /\ calls[1] = << <<>>, <<>> >>
    /\ Len(calls[2]) = 2
    /\ ~Truthy(calls[2][1])
    /\ merged[1].summary = <<>>
    /\ merged[2].summary = <<Stage1Word(2, 2)>>

\* A digest is invalid when it is empty, blank or holds a failure indicator.
Invalid(d) == d = <<>> \/ Strip(d) = <<>> \/ Contains(d, IND_EN) \/ Contains(d, IND_ZH)

AfterLoop == pc \in {"final", "commit", "deliver", "notify", "sending_digest",
                     "sending_notice", "save", "done"} /\ terminal /= "NO_NEW_ITEMS"

Committing == pc \in {"commit", "deliver", "sending_digest", "save"} \/ terminal = "SUCCESS"

\* C3: with a non-empty batch the generate step runs at most twice, a second
\* time exactly when the first digest is invalid; the run commits only a valid
\* digest, and two invalid digests end the run in FAILED.
C3_GenerateRetry ==
    /\ attempt <= 2
    /\ Len(digests) <= attempt
    /\ Len(digests) = 2 => Invalid(digests[1])
    /\ (AfterLoop /\ pc /= "idle") =>
          /\ Len(digests) >= 1
          /\ Invalid(digests[1]) => Len(digests) = 2
          /\ digest = digests[Len(digests)]
    /\ Committing => ~Invalid(digest)
    /\ (pc = "done" /\ Len(digests) = 2 /\ Invalid(digests[2])) => terminal = "FAILED"
    /\ terminal = "FAILED" => Len(digests) = 2 /\ Invalid(digests[2])

\* C3 witness: a run that ended in FAILED after two invalid digests, the first
\* rejected for a failure indicator inside a generated text.
C3_Witness ==
    /\ terminal = "FAILED"
    /\ Len(digests) = 2
    /\ Contains(digests[1], IND_ZH)
    /\ Invalid(digests[2])

\* C4: a run changes the processed-id set or the history only once its digest
\* has passed validation; in FAILED and NO_NEW_ITEMS both are as they were when
\* the run began, and no item of a failed batch is in the set.
C4_WrittenOnlyAfterValidation ==
    /\ terminal \in {"FAILED", "NO_NEW_ITEMS"} =>
          /\ processed = startProcessed
          /\ history = startHistory
          /\ updates = <<>>
          /\ saves = <<>>
          /\ \A k \in DOMAIN entries : entries[k].id \notin processed
    /\ (processed /= startProcessed \/ history /= startHistory) =>
          ~Invalid(digest) /\ Committing

\* C4 witness: a FAILED run of a two-item batch that began with a non-empty
\* processed-id set.
C4_Witness ==
    /\ terminal = "FAILED"
    /\ Len(entries) = 2
    /\ startProcessed /= {}

\* C5: no chunk of the digest is sent, and sending does not begin, before
\* _update_processed_ids has been called with the batch's ids.
C5_CommitBeforeDeliver ==
    LET committed == Len(updates) = 1 /\ updates[1].entry_ids = EntryIds(entries)
    IN  /\ pc \in {"deliver", "sending_digest", "save"} => committed
        /\ \A k \in DOMAIN sends : sends[k].text = digest => committed

\* C5 witness: the first chunk of a valid digest has been sent, after a tracker
\* update.
C5_Witness ==
    /\ pc = "sending_digest"
    /\ Len(sends) = 1
    /\ sends[1].text = digest
    /\ Len(updates) = 1

\* What one _update_processed_ids call leaves in the file.
WindowStart(clock) == clock - 48 * 3600

AfterUpdate(u) ==
    IF u.io = "ok"
    THEN { x \in u.existing_ids \cup u.entry_ids : LeadingTimestamp(x) >= WindowStart(u.clock) }
    ELSE IF u.io = "dump_error" THEN TRUNCATED_FILE
    ELSE u.existing_ids

\* C6: the history is saved to only after send_digest returned success, and the
\* entry put in front is the digest every chunk of which was sent; after a
\* failed send, a failure on a later chunk included, the history is as it was
\* and the processed-id set is what the tracker update left.
C6_HistoryOnlyAfterSuccess ==
    /\ (saves /= <<>> \/ history /= startHistory) =>
          /\ Len(saves) = 1
          /\ response = "ok"
          /\ Len(sends) = outTotal
          /\ \A k \in DOMAIN sends : sends[k].ok /\ sends[k].text = digest
          /\ saves[1].digest = digest
    /\ (saves /= <<>> /\ saves[1].write = "ok") => history[1] = digest
    /\ (saves /= <<>> /\ saves[1].write = "write_error") => history = startHistory
    /\ (response = "fail" /\ terminal = "SUCCESS") =>
          /\ history = startHistory
          /\ saves = <<>>
          /\ Len(updates) = 1
          /\ processed = AfterUpdate(updates[1])

\* C6 witness: the second chunk of a digest failed after the first was
\* delivered; the tracker update had added ids.
C6_Witness ==
    /\ terminal = "SUCCESS"
    /\ response = "fail"
    /\ Len(sends) = 2
    /\ sends[1].ok
    /\ ~sends[2].ok
    /\ sends[1].text = digest
    /\ processed /= startProcessed

DisabledSuccess == terminal = "SUCCESS" /\ ~send

CommittedOk == Len(updates) = 1 /\ updates[1].io = "ok"

\* C7: with delivery disabled and a valid digest, the batch's ids are in the
\* tracker (its file having been read and written without error), the history
\* is unchanged and no transport call is made.
C7_DisabledStillCommits ==
    (DisabledSuccess /\ CommittedOk) =>
        /\ EntryIds(entries) \subseteq processed
        /\ history = startHistory
        /\ sends = <<>>

\* C7, what the code does: with delivery disabled and a valid digest the tracker
\* update is run once, on the batch's ids; when it reads and writes the file the
\* batch ids within the 48-hour window are in the tracker and the older ones
\* are not; the history is unchanged and nothing is sent.
C7_CodeBehaviour ==
    DisabledSuccess =>
        /\ Len(updates) = 1
        /\ updates[1].entry_ids = EntryIds(entries)
        /\ updates[1].existing_ids = startProcessed
        /\ processed = AfterUpdate(updates[1])
        /\ updates[1].io = "ok" =>
              \A x \in EntryIds(entries) :
                  x \in processed <=> LeadingTimestamp(x) >= WindowStart(updates[1].clock)
        /\ history = startHistory
        /\ saves = <<>>
        /\ sends = <<>>
        /\ response = "none"

\* C8: after the commit of a valid digest, the tracker file being readable and
\* writable, every id of the batch is in the processed-id set, whatever the
\* timestamp in its leading digits.
C8_BatchIdsProcessed == CommittedOk => EntryIds(entries) \subseteq processed

\* C8, what the code does: after such a commit the ids of the batch whose
\* leading 10 digits are a timestamp within 48 hours of the commit are in the
\* set, and the older ones are not.
C8_CodeBehaviour ==
    CommittedOk =>
        \A x \in EntryIds(entries) :
            x \in processed <=> LeadingTimestamp(x) >= WindowStart(updates[1].clock)

LastSave == saves[Len(saves)]

ShiftedIn(before, d, after) ==
    /\ Len(after) = (IF Len(before) < 10 THEN Len(before) + 1 ELSE 10)
    /\ after[1] = d
    /\ \A k \in 2..Len(after) : after[k] = before[k - 1]

\* C9: the store never holds more than 10 entries, and every save (a call that
\* wrote the file) puts the new digest first, moves the earlier entries down by
\* one in their order and, when there were 10, drops the last.
C9_HistoryBound ==
    /\ Len(history) <= 10
    /\ (saves /= <<>> /\ LastSave.write = "ok") =>
          ShiftedIn(LastSave.stored, LastSave.digest, history)

\* C9, what the code does: the store never holds more than 10 entries; a save
\* that reads and writes the file without error shifts the new digest in as
\* C9 says; a save whose write fails leaves the store as it was; a save whose
\* read fails and whose write succeeds leaves the new digest alone; a save
\* whose write fails leaves the store as it was or empty.
C9_CodeBehaviour ==
    /\ Len(history) <= 10
    /\ saves /= <<>> =>
          /\ (LastSave.readOk /\ LastSave.write = "ok") =>
                ShiftedIn(LastSave.stored, LastSave.digest, history)
          /\ LastSave.write = "write_error" => history = LastSave.stored
          /\ LastSave.write = "dump_error" => history = <<>>
          /\ (LastSave.write = "ok" /\ ~LastSave.readOk) => history = <<LastSave.digest>>

\* C10: after an _update_processed_ids call that read and wrote the file, an id
\* is in the persisted set exactly when it was stored before or newly supplied
\* and its leading-10-digit timestamp is at least now minus 48 hours.
C10_TrackerEviction ==
    CommittedOk =>
        /\ processed \subseteq AllIds
        /\ \A x \in AllIds :
              x \in processed <=>
                  /\ x \in updates[1].existing_ids \/ x \in updates[1].entry_ids
                  /\ IntOf(SubSeq(x, 1, 10)) >= updates[1].clock - 48 * 3600

\* C10 witness: an update that evicted a stored id just over 48 hours old, kept
\* a stored id exactly 48 hours old, and left out a newly supplied id older
\* than 48 hours.
C10_Witness ==
    /\ CommittedOk
    /\ \E x \in updates[1].existing_ids : x \notin processed
    /\ \E y \in updates[1].existing_ids :
          y \in processed /\ LeadingTimestamp(y) = WindowStart(updates[1].clock)
    /\ \E z \in updates[1].entry_ids : z \notin processed

\* The chunk list has been built.
Chunked == pc \in {"send_long", "sent"} /\ NeedsSplit(processed_text)

\* C11: for a processed text longer than 4096 characters, every chunk of the
\* list has between 1 and 4096 characters, the chunks in order make up the
\* processed text exactly, and so a text of L characters has at least
\* ceil(L / 4096) chunks.
C11_ChunksPartitionText ==
    Chunked =>
        /\ \A k \in DOMAIN chunks :
              TextLen(chunks[k]) >= 1 /\ TextLen(chunks[k]) <= 4096
        /\ Canon(Flatten(chunks)) = Canon(processed_text)
        /\ Len(chunks) * 4096 >= TextLen(processed_text)

\* C11 witness: a text split into at least three chunks, one of them cut from
\* an oversized piece at 4096 characters and one ending at a line break.
C11_Witness ==
    /\ Chunked
    /\ Len(chunks) >= 3
    /\ \E k \in DOMAIN chunks :
          TextLen(chunks[k]) = 4096 /\ chunks[k][1].c = "b"
    /\ \E k \in DOMAIN chunks : chunks[k][Len(chunks[k])].c = "\n"

\* C12: in chunked delivery the transport is given the non-blank chunks in
\* increasing order of index, each once; a failed send is the last one, so no
\* later chunk is sent, and send_message returns that chunk's failure response.
C12_ChunksSentInOrder ==
    Chunked =>
        /\ \A i \in DOMAIN posts :
              /\ posts[i].chunk \in DOMAIN chunks
              /\ posts[i].text = chunks[posts[i].chunk]
              /\ \A j \in DOMAIN posts : i < j => posts[i].chunk < posts[j].chunk
              /\ i < Len(posts) => posts[i].ok
        /\ \A k \in DOMAIN chunks :
              (k < cursor /\ ~IsBlankChunk(chunks[k])) =>
                  \E i \in DOMAIN posts : posts[i].chunk = k
        /\ (posts /= <<>> /\ ~posts[Len(posts)].ok) =>
              /\ pc = "sent"
              /\ result = [success |-> FALSE, chunk |-> posts[Len(posts)].chunk]
              /\ cursor = posts[Len(posts)].chunk

\* C12 witness: the first chunk was delivered, the second failed, and a third
\* chunk with content was never sent.
C12_Witness ==
    /\ Chunked
    /\ pc = "sent"
    /\ Len(posts) = 2
    /\ posts[1].ok
    /\ ~posts[2].ok
    /\ \E k \in DOMAIN chunks : k > posts[2].chunk /\ ~IsBlankChunk(chunks[k])

\* C13: a run that ends in FAILED with delivery enabled has handed one text to
\* the sender, the notice that carries the failure reason of the second
\* generate attempt; with delivery disabled it has sent nothing; the digest
\* is not sent and nothing is committed or saved; and whatever the transport
\* answered, the run ends in FAILED and returns the invalid digest.
C13_FailureNotice ==
    /\ terminal = "FAILED" =>
          /\ Len(digests) = 2
          /\ returned = digests[2]
          /\ send =>
                /\ sends /= <<>>
                /\ response \in {"ok", "fail"}
                /\ \A k \in DOMAIN sends :
                      /\ sends[k].text =
                            <<"Digest generation failed after 2 attempts. Error: ">>
                                \o (IF digests[2] = <<>> THEN <<"Empty digest">> ELSE digests[2])
                      /\ sends[k].text /= digests[2]
                      /\ sends[k].part = k
                      /\ sends[k].of = outTotal
          /\ ~send => sends = <<>> /\ response = "none"
          /\ updates = <<>>
          /\ saves = <<>>
    /\ pc \in {"notify", "sending_notice"} =>
          /\ Invalid(digest)
          /\ terminal = "NONE"
    /\ (pc = "done" /\ digests /= <<>> /\ Invalid(digest)) =>
          terminal = "FAILED" /\ returned = digest

\* C13 witness: a FAILED run whose notice, in two chunks, was refused by the
\* transport on the second, and whose two attempts failed for different reasons.
C13_Witness ==
    /\ terminal = "FAILED"
    /\ send
    /\ response = "fail"
    /\ Len(sends) = 2
    /\ digests[1] /= digests[2]
    /\ returned = digests[2]

\* C14: a run whose fetched and filtered batch is empty ends at once in
\* NO_NEW_ITEMS and returns the descriptive message: no generate attempt and no
\* service call is made, nothing is sent, and the tracker and the history are
\* not written.
C14_NoNewItems ==
    /\ (runs > 0 /\ entries = <<>>) =>
          /\ pc = "done"
          /\ terminal = "NO_NEW_ITEMS"
    /\ terminal = "NO_NEW_ITEMS" =>
          /\ entries = <<>>
          /\ returned = NoNewMessage
          /\ attempt = 0
          /\ digests = <<>>
          /\ task = <<>> /\ calls = <<>> /\ stage2req = <<>>
          /\ sends = <<>> /\ response = "none"
          /\ updates = <<>> /\ saves = <<>>
          /\ processed = startProcessed
          /\ history = startHistory

\* C14 witness: a run with delivery enabled that found nothing new after an
\* earlier run had recorded items and saved a digest.
C14_Witness ==
    /\ terminal = "NO_NEW_ITEMS"
    /\ send
    /\ processed /= {}
    /\ history /= <<>>

\* C15: every invocation ends: a run under way reaches its return, in one of
\* SUCCESS, NO_NEW_ITEMS and FAILED, and has then returned a text: the valid
\* digest on SUCCESS, the descriptive message on NO_NEW_ITEMS, the invalid
\* digest (the error text) on FAILED.
C15_RunTerminates ==
    /\ [](pc = "done" =>
            /\ terminal \in {"SUCCESS", "NO_NEW_ITEMS", "FAILED"}
            /\ returned /= <<>>
            /\ terminal = "SUCCESS" => returned = digest /\ ~Invalid(digest)
            /\ terminal = "NO_NEW_ITEMS" => returned = NoNewMessage
            /\ terminal = "FAILED" => returned = digest /\ Invalid(digest))
    /\ [](pc /= "done" => terminal = "NONE")
    /\ (pc \notin {"idle", "done"}) ~> (pc = "done")

\* C15 witness: a run that ended in SUCCESS on its second generate attempt after
\* a send whose last chunk was refused.
C15_Witness ==
    /\ pc = "done"
    /\ terminal = "SUCCESS"
    /\ Len(digests) = 2
    /\ response = "fail"
    /\ returned = digest

\* send_message has processed a text with _process_markdown_structure_and_escape.
Structured == pc /= "send_message" /\ parse_mode = "MarkdownV2" /\ process_markdown

InputLines == SplitLines(TextStrip(text))

OutputLines == SplitLines(processed_text)

\* What a line becomes by the rules of C16, escaped(x) being what
\* _escape_markdown_v2_content makes of x.
LineByRule(line) ==
    IF StartsWith(line, <<"#", " ">>)
    THEN <<Ch("*")>> \o EscapeMarkdownV2Content(DropChars(line, 2)) \o <<Ch("*")>>
    ELSE IF StartsWith(line, <<"#", "#", " ">>)
    THEN <<Ch("*")>> \o EscapeMarkdownV2Content(DropChars(line, 3)) \o <<Ch("*")>>
    ELSE IF StartsWith(line, <<"-", " ">>)
    THEN <<Ch("\\"), Ch("-"), Ch(" ")>> \o EscapeMarkdownV2Content(DropChars(line, 2))
    ELSE EscapeMarkdownV2Content(line)

\* C16 as stated: the lines of the outer-trimmed input map one to one, in
\* order, to the output lines; a line starting with "# " or "## " becomes "*",
\* its escaped content, "*"; one starting with "- " becomes an escaped dash, a
\* space and its escaped content; another non-blank line becomes its escaped
\* content; a blank line gives a blank line.
C16_LinesMappedAsWritten ==
    Structured =>
        /\ Len(OutputLines) = Len(InputLines)
        /\ \A k \in DOMAIN InputLines :
              IF TextStrip(InputLines[k]) = <<>>
              THEN TextStrip(OutputLines[k]) = <<>>
              ELSE OutputLines[k] = LineByRule(InputLines[k])

\* C16, amended: the same, each line being trimmed of its leading and trailing
\* whitespace before the rules are applied, so that an indented marker counts,
\* a marker with nothing after it is plain text, and a blank line becomes the
\* empty line.
C16_TrimmedLinesMapped ==
    Structured =>
        /\ Len(OutputLines) = Len(InputLines)
        /\ \A k \in DOMAIN InputLines :
              OutputLines[k] = LineByRule(TextStrip(InputLines[k]))

\* C16 witness: a text of two lines or more with an indented bullet that holds
\* a bold span.
C16_Witness ==
    /\ Structured
    /\ Len(InputLines) >= 2
    /\ \E k \in DOMAIN InputLines :
          /\ StartsWith(InputLines[k], <<" ", "-", " ", "*", "*">>)
          /\ StartsWith(OutputLines[k], <<"\\", "-", " ", "*", "a">>)

\* send_message has escaped a text with _escape_markdown_v2_content alone.
ContentEscaped == pc /= "send_message" /\ parse_mode = "MarkdownV2" /\ ~process_markdown

\* The conversion C17 describes, made in one pass over the text, without
\* placeholders.  A link is a match of the link pattern; a bold span is "**",
\* a non-empty content of characters other than "*" and of links, and "**".
LinkByRule(m) ==
    <<Ch("[")>> \o EscapeChars(m.first) \o <<Ch("]"), Ch("(")>> \o EscapeUrl(m.second)
        \o <<Ch(")")>>

\* The index of the first "*" from p on that is outside a link, 0 if none.
RECURSIVE BoldContentEnd(_, _)
BoldContentEnd(s, p) ==
    IF p > Len(s) THEN 0
    ELSE IF LinkAt(s, p).ok THEN BoldContentEnd(s, LinkAt(s, p).last + 1)
    ELSE IF s[p].c = "*" THEN p
    ELSE BoldContentEnd(s, p + 1)

\* The characters p..q with the links converted and the rest escaped.
RECURSIVE ContentByRule(_, _, _)
ContentByRule(s, p, q) ==
    IF p > q THEN <<>>
    ELSE IF LinkAt(s, p).ok
    THEN LinkByRule(LinkAt(s, p)) \o ContentByRule(s, LinkAt(s, p).last + 1, q)
    ELSE EscapeChars(<<s[p]>>) \o ContentByRule(s, p + 1, q)

RECURSIVE EscapedByRule(_, _)
EscapedByRule(s, i) ==
    IF i > Len(s) THEN <<>>
    ELSE IF LinkAt(s, i).ok
    THEN LinkByRule(LinkAt(s, i)) \o EscapedByRule(s, LinkAt(s, i).last + 1)
    ELSE LET j == BoldContentEnd(s, i + 2)
         IN  IF /\ CharAt(s, i) = "*" /\ CharAt(s, i + 1) = "*"
                /\ j > i + 2 /\ CharAt(s, j + 1) = "*"
             THEN <<Ch("*")>> \o ContentByRule(s, i + 2, j - 1) \o <<Ch("*")>>
                      \o EscapedByRule(s, j + 2)
             ELSE EscapeChars(<<s[i]>>) \o EscapedByRule(s, i + 1)

InputChars == { text[k].c : k \in DOMAIN text }

NoSpans(s) == \A i \in DOMAIN s : ~LinkAt(s, i).ok /\ ~BoldAt(s, i).ok

\* The number of reserved characters of a text.
RECURSIVE ReservedCount(_)
ReservedCount(s) ==
    IF s = <<>> THEN 0
    ELSE (IF Head(s).c \in RESERVED THEN Head(s).n ELSE 0) + ReservedCount(Tail(s))

\* The text without the backslashes that stand before a reserved character.
RECURSIVE Unescape(_)
Unescape(s) ==
    IF s = <<>> THEN <<>>
    ELSE IF Len(s) >= 2 /\ s[1] = Ch("\\") /\ s[2].c \in RESERVED
    THEN <<s[2]>> \o Unescape(Tail(Tail(s)))
    ELSE <<Head(s)>> \o Unescape(Tail(s))

\* C18: on a content with no bold span and no link the output of
\* _escape_markdown_v2_content is the input with exactly one backslash put
\* before every reserved character and nothing else changed: every reserved
\* character of the output follows a backslash, the output is longer than the
\* input by the number of reserved characters, and taking those backslashes
\* out gives the input.
C18_PlainTextEscaped ==
    (ContentEscaped /\ NoSpans(text)) =>
        /\ \A k \in DOMAIN processed_text :
              processed_text[k].c \in RESERVED =>
                  /\ processed_text[k].n = 1
                  /\ k > 1
                  /\ processed_text[k - 1] = Ch("\\")
        /\ TextLen(processed_text) = TextLen(text) + ReservedCount(text)
        /\ Unescape(processed_text) = text

\* C18 witness: a backslash, a full stop and an opening bracket.
C18_Witness ==
    /\ ContentEscaped
    /\ NoSpans(text)
    /\ text = Str(<<"\\", ".", "[">>)
    /\ processed_text = Str(<<"\\", "\\", ".", "\\", "[">>)

\* The chunk loop of _send_long_message has been entered.
ChunkPathTaken ==
    \/ pc = "send_long"
    \/ chunks /= <<>>
    \/ \E k \in DOMAIN posts : posts[k].chunk /= 0

\* C19: send_message hands the transport the escaped text; when its length
\* is at most 4096 exactly one send is made, with the whole escaped text,
\* and the chunk loop is entered only when the escaped length is above 4096.
C19_SingleSendWithinLimit ==
    /\ pc /= "send_message" =>
          processed_text = ProcessedText(text, parse_mode, process_markdown)
    /\ (pc /= "send_message" /\ TextLen(processed_text) <= TELEGRAM_LIMIT) =>
          /\ ~ChunkPathTaken
          /\ Len(posts) <= 1
          /\ pc = "sent" =>
                /\ Len(posts) = 1
                /\ posts[1].text = processed_text
                /\ posts[1].chunk = 0
                /\ result = Response(posts[1].ok, 0)
    /\ ChunkPathTaken => TextLen(processed_text) > TELEGRAM_LIMIT

\* C19 witness: an escaped text of exactly 4096 characters sent as one
\* message.
C19_Witness ==
    /\ pc = "sent"
    /\ parse_mode = "MarkdownV2"
    /\ TextLen(processed_text) = TELEGRAM_LIMIT
    /\ Len(posts) = 1
    /\ posts[1].text = processed_text

\* A reachable state: an input of 4096 characters whose escaped text has 4097
\* has gone through the chunk loop.
C19_SplitByEscapedLength ==
    /\ pc = "sent"
    /\ TextLen(text) = TELEGRAM_LIMIT
    /\ TextLen(processed_text) = TELEGRAM_LIMIT + 1
    /\ ChunkPathTaken

\* Every Stage-1 task of the attempt under way has ended with the empty summary.
AllSummariesEmpty ==
    /\ pc \in {"stage1", "stage2"}
    /\ task /= <<>>
    /\ \A i \in DOMAIN task : task[i].st = "finished" /\ task[i].summary = <<>>

\* C20: an attempt in which every item's Stage-1 task yields the empty
\* summary is a stage failure: Stage 2 is not invoked, and the digest the
\* attempt ends with is not a valid one.
C20_EmptySummariesFailStage ==
    [][AllSummariesEmpty =>
          /\ pc' /= "stage2"
          /\ pc' \notin {"stage1", "stage2"} => ~LoopAccepts(digest')]_vars

\* C20, the second half alone: the digest of an attempt whose summaries were
\* all empty is not accepted by the retry loop.
C20_EmptySummariesDigestInvalid ==
    [][(AllSummariesEmpty /\ pc = "stage2" /\ pc' /= "stage2")
          => ~LoopAccepts(digest')]_vars

\* C20, what the code does: the merged text of a fetched batch always holds
\* the blocks' marker and header lines, so no attempt ends with the Stage-1
\* failure digest, and Stage 2 is called with whatever the summaries are.
C20_CodeBehaviour ==
    /\ \A k \in DOMAIN digests : digests[k] /= STAGE1_EMPTY
    /\ pc = "stage2" => Len(merged) = Len(entries)

\* Stage 1 of an attempt is under way or has just ended.
InStage1 == pc \in {"stage1", "stage2"}

Started(tasks) == { i \in DOMAIN tasks : tasks[i].st /= "queued" }

\* C21: during Stage 1 there is exactly one task per item, started at most
\* once; at most STAGE1_MAX_WORKERS tasks execute at any moment; every started
\* task has a client of its own, which no other task of the stage has, and
\* keeps it over its retry.
C21_OneTaskPerItemBoundedPool ==
    /\ [](InStage1 =>
            /\ Len(task) = Len(entries)
            /\ Cardinality(Running(task)) <= STAGE1_MAX_WORKERS
            /\ \A i \in DOMAIN task : task[i].client /= 0 <=> i \in Started(task)
            /\ \A i, j \in Started(task) : task[i].client = task[j].client => i = j)
    /\ [][(pc = "stage1" /\ pc' \in {"stage1", "stage2"}) =>
             \A i \in Started(task) :
                 /\ i \in Started(task')
                 /\ task'[i].client = task[i].client]_vars

\* C21 witness: a batch of three items on a pool of two: the first task is on
\* its second call, the second has ended and the third, started in its place,
\* runs with the third client.
C21_Witness ==
    /\ pc = "stage1"
    /\ Len(entries) = 3
    /\ Len(entries) > STAGE1_MAX_WORKERS
    /\ task[1].st = "running" /\ task[1].att = 2 /\ task[1].client = 1
    /\ task[2].st = "finished" /\ task[2].client = 2
    /\ task[3].st = "running" /\ task[3].client = 3

\* The slots that the step writes.
SlotsWritten == { k \in DOMAIN results : results'[k] /= results[k] }

\* C22: in an attempt every result slot is written once, slot k with the
\* block of item k when the task of item k ends; while a task is queued or
\* running there is no merged text and no Stage-2 request; the merged text
\* holds every slot's block, in item order, and the attempt's one Stage-2
\* request carries it.
C22_SlotsWrittenOnceThenJoined ==
    /\ [][(pc = "stage1" /\ pc' \in {"stage1", "stage2"}) =>
             \A k \in SlotsWritten :
                 /\ results[k] = NoneBlock
                 /\ task[k].st = "running" /\ task'[k].st = "finished"
                 /\ results'[k] = Block(WorkerResult(k, entries[k], task'[k].summary))
                 /\ SlotsWritten = {k}]_vars
    /\ [](pc = "stage1" => merged = <<>> /\ stage2req = <<>>)
    /\ [](pc = "stage2" =>
             /\ AllDone(task)
             /\ \A k \in DOMAIN results : results[k] /= NoneBlock
             /\ merged = results
             /\ Len(stage2req) = 1
             /\ stage2req[1].merged_summaries = merged)

\* C22 witness: three items whose tasks ended in another order than they were
\* submitted, all slots filled, the Stage-2 request built.
C22_Witness ==
    /\ pc = "stage2"
    /\ Len(entries) = 3
    /\ completed = <<2, 3, 1>>
    /\ \A k \in 1..3 : merged[k].start = k /\ merged[k].title = entries[k].title
    /\ Len(stage2req) = 1

\* The indices of the chunks that are not blank, in increasing order.
RECURSIVE NonBlankFrom(_, _)
NonBlankFrom(cs, k) ==
    IF k > Len(cs) THEN <<>>
    ELSE (IF IsBlankChunk(cs[k]) THEN <<>> ELSE <<k>>) \o NonBlankFrom(cs, k + 1)

NonBlank(cs) == NonBlankFrom(cs, 1)

\* send_message has returned for a text over the limit.
ChunkedReturned == pc = "sent" /\ NeedsSplit(processed_text)

\* C23: send_message reports success for a text over the limit only if every
\* chunk that is not blank was sent, in order, and accepted; and a loop that
\* sent no chunk reports a failure.
C23_SuccessMeansAllChunksDelivered ==
    /\ (ChunkedReturned /\ result.success) =>
          /\ posts /= <<>>
          /\ Len(posts) = Len(NonBlank(chunks))
          /\ \A k \in DOMAIN posts :
                /\ posts[k].ok
                /\ posts[k].chunk = NonBlank(chunks)[k]
                /\ posts[k].text = chunks[posts[k].chunk]
    /\ (ChunkedReturned /\ posts = <<>>) => ~result.success

\* C23, the consequence for run_digest_process, whose send_digest succeeds
\* when every part of the digest was sent and accepted: the history file
\* changes only in the save that follows such a delivery.
C23_HistoryAfterFullDelivery ==
    /\ [](pc = "save" =>
             /\ Len(sends) = outTotal
             /\ \A k \in DOMAIN sends :
                   sends[k].ok /\ sends[k].text = digest /\ sends[k].part = k)
    /\ [][history' /= history => pc = "save"]_vars

\* C23 witness: a text over the limit whose second chunk is blank; the other
\* chunks, more than one, were all sent and accepted, and the call succeeded.
C23_Witness ==
    /\ ChunkedReturned
    /\ result.success
    /\ Len(posts) >= 2
    /\ IsBlankChunk(chunks[2])
    /\ Len(posts) = Len(chunks) - 1

\* A reachable state: every chunk of a text over the limit was blank, nothing
\* was sent and the call failed.
C23_NothingSent ==
    /\ ChunkedReturned
    /\ chunks /= <<>>
    /\ posts = <<>>
    /\ result = NoContentResponse

\* A reachable state: the save of a digest delivered in more than one part.
C23_SaveAfterParts == pc = "save" /\ outTotal >= 2 /\ Len(sends) = outTotal

\* The tracker update of the run failed; the history save of the run failed.
TrackerUpdateFailed == updates /= <<>> /\ updates[1].io /= "ok"

HistorySaveFailed == saves /= <<>> /\ saves[1].write /= "ok"

\* What a failed read or write leaves of the run: the update is followed by
\* the delivery when delivery is enabled, the save by the return of the digest,
\* and the Stage-2 request carries the stored history or, its read having
\* failed, the empty one.
RunGoesOn ==
    /\ pc = "stage2" => stage2req[1].digest_history \in {history, <<>>}
    /\ TrackerUpdateFailed =>
          /\ send => \/ pc \in {"deliver", "sending_digest", "save"}
                     \/ pc = "done" /\ sends /= <<>>
          /\ pc = "done" => terminal = "SUCCESS" /\ returned = digest
    /\ HistorySaveFailed => pc = "done" /\ terminal = "SUCCESS" /\ returned = digest

\* C24: a failed read or write of the tracker or history file does not stop
\* the run or change how it ends; a failed tracker update leaves the
\* processed-id set as it was stored, and a failed history save leaves the
\* history as it was stored.
C24_StorageFailuresKeepPrevious ==
    /\ RunGoesOn
    /\ TrackerUpdateFailed => processed = updates[1].existing_ids
    /\ HistorySaveFailed => history = saves[1].stored

\* C24, what the code does: the run goes on as C24 says, and a file that could
\* not be read or opened is as it was stored; a write that fails after the
\* file was opened leaves the file cut short: the tracker file has no list
\* any more, and the history file is read as the empty history.
C24_CodeBehaviour ==
    /\ RunGoesOn
    /\ TrackerUpdateFailed =>
          processed = IF updates[1].io = "dump_error" THEN TRUNCATED_FILE
                      ELSE updates[1].existing_ids
    /\ HistorySaveFailed =>
          history = IF saves[1].write = "dump_error" THEN <<>> ELSE saves[1].stored

\* A reachable state: the second run's tracker update failed after the file
\* was opened, and the ids the first run had stored are gone.
C24_StoredIdsLost ==
    /\ runs = 2
    /\ TrackerUpdateFailed
    /\ updates[1].existing_ids /= {}
    /\ processed = TRUNCATED_FILE

\* The run is in the retry loop around generate_digest or at the final check.
Generating == pc \in {"attempt", "stage1", "stage2", "final"}

\* C25: from the fetch to the final check of the digest, over every generate
\* attempt, the processed-id set and the history are as the run found them and
\* no update or save has been called; the history Stage 2 is given is the
\* stored one, or the empty one after a failed read.
C25_GenerateLeavesStoresAlone ==
    Generating =>
        /\ processed = startProcessed
        /\ history = startHistory
        /\ updates = <<>>
        /\ saves = <<>>
        /\ pc = "stage2" => stage2req[1].digest_history \in {startHistory, <<>>}

\* C25 witness: the second run, which found ids and a digest stored, is at the
\* final check after a second attempt that gave an invalid digest.
C25_Witness ==
    /\ pc = "final"
    /\ runs = 2
    /\ attempt = 2
    /\ Len(digests) = 2
    /\ Invalid(digest)
    /\ startProcessed /= {}
    /\ startHistory /= <<>>
    /\ processed = startProcessed
    /\ history = startHistory

\* The chunk has nothing but spaces, tabs and line breaks.
OnlyWhite(chunk) == \A k \in DOMAIN chunk : chunk[k].c \in {" ", "\t", "\n"}

\* The chunks before the cursor that hold something else than white space.
Sendable(k) == { j \in 1..(k - 1) : ~OnlyWhite(chunks[j]) }

AllAccepted == \A k \in DOMAIN posts : posts[k].ok

\* C26: in the chunk loop no post carries a chunk of white space only; as
\* long as the transport accepts what it is sent, every chunk passed that is
\* not white space has been posted, the white ones having been stepped over;
\* and when the loop ends so, having posted something, the result is a success.
C26_BlankChunksSkipped ==
    Chunked =>
        /\ \A k \in DOMAIN posts : ~OnlyWhite(posts[k].text)
        /\ AllAccepted =>
              /\ { posts[k].chunk : k \in DOMAIN posts } = Sendable(cursor)
              /\ (pc = "sent" /\ posts /= <<>>) =>
                    /\ cursor = Len(chunks) + 1
                    /\ result.success

\* C26 witness: the loop has ended with a success; the second chunk was white
\* space and was not posted, the first and the third were.
C26_Witness ==
    /\ Chunked
    /\ pc = "sent"
    /\ Len(chunks) >= 3
    /\ OnlyWhite(chunks[2])
    /\ { posts[k].chunk : k \in DOMAIN posts } \cap {1, 2, 3} = {1, 3}
    /\ result.success

=============================================================================
